---- MODULE Spec2Model ----
(***************************************************************************)
(* kikuchipy/utils/expt_utils.py: rescale_pattern_intensity,               *)
(* correct_background and remove_dead, statement by statement.             *)
(*                                                                         *)
(* An array is a record [dtype, data]; data is a sequence of rows, so the  *)
(* pixel the code calls pattern[i, j] (0-based) is data[i + 1][j + 1].     *)
(* An optional Python value is a sequence: << >> is None, <<x>> is x.      *)
(* A Python float is a record [num, den] that stands for the IEEE-754      *)
(* binary64 number nearest to num / den (den = 0: the division by zero     *)
(* that numpy answers with inf).                                           *)
(***************************************************************************)
EXTENDS Integers, Sequences, FiniteSets, TLC

VARIABLES rescale, correct, remove, heap

vars == <<rescale, correct, remove, heap>>

(***************************************************************************)
(* Bounds of the model.                                                    *)
(***************************************************************************)
Rows == 3
Cols == 3
MaxDead == 2

\* the functions are synchronous and share no state: a call starts when none runs
NoCall == rescale.pc = "idle" /\ correct.pc = "idle" /\ remove.pc = "idle"

(***************************************************************************)
(* Integer helpers.                                                        *)
(***************************************************************************)
RECURSIVE Pow2(_)
Pow2(n) == IF n <= 0 THEN 1 ELSE 2 * Pow2(n - 1)

Abs(x) == IF x < 0 THEN -x ELSE x

\* floor(log2(n)) for n >= 1
RECURSIVE FloorLog2(_)
FloorLog2(n) == IF n < 2 THEN 0 ELSE 1 + FloorLog2(n \div 2)

\* Python's int(x) for the rational x = n / d, d > 0: truncation toward zero
TruncDiv(n, d) == IF n >= 0 THEN n \div d ELSE -((-n) \div d)

(***************************************************************************)
(* numpy dtypes.                                                           *)
(***************************************************************************)
Bits(dt) ==
    CASE dt = "uint8" -> 8
      [] dt = "int8" -> 8
      [] dt = "uint16" -> 16
      [] dt = "int16" -> 16
      [] OTHER -> 64

IsInteger(dt) == dt \in {"uint8", "uint16", "int8", "int16"}

IsSigned(dt) == dt \in {"int8", "int16"}

\* faulty variant: np.issubdtype(dt, np.integer)
IsUnsignedIntegerAnyInteger(dt) == IsInteger(dt)

\* np.issubdtype(dt, np.unsignedinteger)
IsUnsignedInteger(dt) == dt \in {"uint8", "uint16"}

\* np.iinfo(dt).max
IInfoMax(dt) ==
    IF IsSigned(dt) THEN Pow2(Bits(dt) - 1) - 1 ELSE Pow2(Bits(dt)) - 1

\* integer arithmetic and integer-to-integer casts of a fixed-width dtype
\* wrap around (two's complement); float64 holds these integers exactly
WrapTo(v, dt) ==
    IF ~IsInteger(dt) THEN v
    ELSE LET m == Pow2(Bits(dt))
             u == v % m
         IN  IF IsSigned(dt) /\ u >= m \div 2 THEN u - m ELSE u

(***************************************************************************)
(* Arrays.                                                                 *)
(***************************************************************************)
NRows(a) == Len(a.data)
NCols(a) == IF Len(a.data) = 0 THEN 0 ELSE Len(a.data[1])

Coords(a) == (0 .. NRows(a) - 1) \X (0 .. NCols(a) - 1)

At(a, i, j) == a.data[i + 1][j + 1]

Values(a) == {At(a, c[1], c[2]) : c \in Coords(a)}

\* ndarray.min() and ndarray.max()
ArrMin(a) == CHOOSE v \in Values(a) : \A w \in Values(a) : v <= w
ArrMax(a) == CHOOSE v \in Values(a) : \A w \in Values(a) : v >= w

\* ndarray.astype(dt) between integer dtypes
AsType(a, dt) ==
    [dtype |-> dt,
     data |-> [i \in 1 .. NRows(a) |-> [j \in 1 .. NCols(a) |-> WrapTo(a.data[i][j], dt)]]]

\* a - b, elementwise, both of dtype a.dtype
SubArrays(a, b) ==
    [dtype |-> a.dtype,
     data |-> [i \in 1 .. NRows(a) |->
                 [j \in 1 .. NCols(a) |-> WrapTo(a.data[i][j] - b.data[i][j], a.dtype)]]]

(***************************************************************************)
(* IEEE-754 binary64.  trunc(RN(v * RN(num / den))) for integers v >= 0,   *)
(* num > 0, den > 0 below 2^17, exactly and in 32-bit integer arithmetic.  *)
(* With e = floor(log2(num / den)) the quotient RN(num / den) is           *)
(* m / 2^(52 - e) with m the integer nearest to num * 2^(52 - e) / den, so *)
(* rho = num * 2^(52 - e) - m * den is the centred remainder and           *)
(*    v * RN(num / den) = v * num / den - v * rho / (den * 2^(52 - e)).    *)
(* With v * num = N * den + s: if s > 0 the product lies strictly between  *)
(* N and N + 1 and far from both; if s = 0 it is N minus a tiny epsilon,   *)
(* which rounds back to N exactly when epsilon is at most half the gap     *)
(* between N and the binary64 number below it, and to that number (whose   *)
(* truncation is N - 1) otherwise.                                         *)
(***************************************************************************)
\* <<q, r>> with a * b = q * m + r and 0 <= r < m, no intermediate above 3 * m
RECURSIVE MulDivMod(_, _, _)
MulDivMod(a, b, m) ==
    IF b = 0 THEN <<0, 0>>
    ELSE LET h == MulDivMod(a, b \div 2, m)
             t == 2 * h[2] + (b % 2) * (a % m)
         IN  <<2 * h[1] + (b % 2) * (a \div m) + t \div m, t % m>>

\* 2^k mod m
RECURSIVE PowMod2(_, _)
PowMod2(k, m) == IF k = 0 THEN 1 % m ELSE (2 * PowMod2(k - 1, m)) % m

\* floor(log2(num / den))
RECURSIVE RatioLog2(_, _)
RatioLog2(num, den) ==
    IF num >= 2 * den THEN 1 + RatioLog2(num, 2 * den)
    ELSE IF num < den THEN RatioLog2(2 * num, den) - 1
    ELSE 0

\* num * 2^(52 - e) - m * den: the rounding error of RN(num / den), times den * 2^(52 - e)
DivRemainder(num, den) ==
    LET e == RatioLog2(num, den)
        r == MulDivMod(num % den, PowMod2(52 - e, den), den)[2]
    IN  IF 2 * r < den THEN r ELSE r - den

MulTruncPos(v, num, den) ==
    LET qr == MulDivMod(v, num, den)
        N == qr[1]
        rho == DivRemainder(num, den)
    IN  IF qr[2] > 0 \/ v = 0 \/ rho <= 0 THEN N
        ELSE LET e == RatioLog2(num, den)
                 f == FloorLog2(N)
                 p == IF Pow2(f) = N THEN 1 ELSE 0
                 j == f - e - 1 - p
                 vr == v * rho
                 back == IF j >= 0
                         THEN \/ vr \div Pow2(j) < den
                              \/ vr \div Pow2(j) = den /\ vr % Pow2(j) = 0
                         ELSE vr <= den \div Pow2(-j)
             IN  IF back THEN N ELSE N - 1

\* int(v * scale) for a finite scale
MulTrunc(v, scale) ==
    LET sgn == IF (v < 0) = (scale.den < 0) THEN 1 ELSE -1
    IN  sgn * MulTruncPos(Abs(v), scale.num, Abs(scale.den))

(***************************************************************************)
(* The C cast of a binary64 number to an unsigned integer type, which is   *)
(* what np.array(float_array, dtype=dtype_out) does.  The cast truncates;  *)
(* when the truncated value is not representable the behaviour is          *)
(* undefined, and the build decides: x86-64 converts to a signed 32-bit    *)
(* integer (inf and nan give 0x80000000) and keeps the low bits; AArch64   *)
(* converts to an unsigned 32-bit integer, saturating (negative and nan    *)
(* give 0, inf gives 0xFFFFFFFF), and keeps the low bits.                  *)
(***************************************************************************)
Builds == {"x86_64", "aarch64"}

CastFloat(v, scale, dtype_out, build) ==
    LET m == Pow2(Bits(dtype_out))
    IN  IF scale.den = 0
        THEN IF v > 0 /\ build = "aarch64" THEN m - 1 ELSE 0
        ELSE LET t == MulTrunc(v, scale)
             IN  IF t >= 0 THEN t % m
                 ELSE IF build = "aarch64" THEN 0 ELSE t % m

(***************************************************************************)
(* Inputs.                                                                 *)
(***************************************************************************)
Slopes == {0, 25}
Steps == {0, 77}
Bases == {10, 200}

Pattern(dt, a, b, c) ==
    [dtype |-> dt,
     data |-> [i \in 1 .. Rows |->
                 [j \in 1 .. Cols |-> (c + a * (i - 1) * (i - 1) + b * (j - 1))
                      % Pow2(IF IsInteger(dt) THEN Bits(dt) ELSE 8)]]]

Patterns(dts) == {Pattern(dt, a, b, c) : dt \in dts, a \in Slopes, b \in Steps, c \in Bases}

NoArray == [dtype |-> "none", data |-> << >>]

Imins == {0, 10}
Scales == {[num |-> 1, den |-> 1], [num |-> 1, den |-> 2], [num |-> 2, den |-> 1]}

OutDtypes == {"uint8", "uint16", "int8", "int16", "float64"}

(***************************************************************************)
(* rescale_pattern_intensity(pattern, imin=None, scale=None,               *)
(*                           dtype_out=np.uint8)                           *)
(***************************************************************************)
\* faulty variant: float(omax / pattern.max())
LocalScaleOfMax(pattern, dtype_out) ==
    [num |-> IInfoMax(dtype_out), den |-> ArrMax(pattern)]

\* line 38: float(omax / (pattern.max() - imin)), imin = pattern.min()
LocalScale(pattern, dtype_out) ==
    [num |-> IInfoMax(dtype_out),
     den |-> WrapTo(ArrMax(pattern) - ArrMin(pattern), pattern.dtype)]

\* line 41: pattern - imin, in the dtype of pattern (imin an integer that the
\* dtype of pattern holds, so that numpy keeps the dtype)
SetLowest(pattern, imin) ==
    [dtype |-> pattern.dtype,
     data |-> [i \in 1 .. NRows(pattern) |->
                 [j \in 1 .. NCols(pattern) |->
                    WrapTo(pattern.data[i][j] - imin, pattern.dtype)]]]

\* line 44: np.array(pattern * scale, dtype=dtype_out)
ScaleIntensities(pattern, scale, dtype_out, build) ==
    [dtype |-> dtype_out,
     data |-> [i \in 1 .. NRows(pattern) |->
                 [j \in 1 .. NCols(pattern) |->
                    CastFloat(pattern.data[i][j], scale, dtype_out, build)]]]

\* the whole function, for its callers: [raised, ret]
RescalePatternIntensity(pattern, imin, scale, dtype_out, build) ==
    IF ~IsUnsignedInteger(dtype_out) THEN [raised |-> "ValueError", ret |-> NoArray]
    ELSE LET local == imin = << >> /\ scale = << >>
             imin1 == IF local THEN <<ArrMin(pattern)>> ELSE imin
             scale1 == IF local THEN <<LocalScale(pattern, dtype_out)>> ELSE scale
         IN  IF imin1 = << >> \/ scale1 = << >>
             THEN [raised |-> "TypeError", ret |-> NoArray]
             ELSE [raised |-> "",
                   ret |-> ScaleIntensities(SetLowest(pattern, imin1[1]), scale1[1],
                                            dtype_out, build)]

RescaleIdle ==
    [pc |-> "idle", pattern |-> NoArray, input |-> NoArray, imin |-> << >>,
     scale |-> << >>, dtype_out |-> "uint8", build |-> "x86_64", local |-> FALSE,
     ret |-> NoArray, raised |-> "", log |-> << >>]

RescaleCall ==
    /\ NoCall
    /\ \E p \in Patterns({"uint8", "uint16"}),
          imin \in {<< >>} \cup {<<v>> : v \in Imins},
          scale \in {<< >>} \cup {<<s>> : s \in Scales},
          dt \in OutDtypes, build \in Builds :
          rescale' = [RescaleIdle EXCEPT !.pc = "L32", !.pattern = p, !.input = p,
                                         !.imin = imin, !.scale = scale,
                                         !.dtype_out = dt, !.build = build]
    /\ UNCHANGED <<correct, remove, heap>>

\* lines 32-33
CheckDtype ==
    /\ rescale.pc = "L32"
    /\ rescale' =
         IF ~IsUnsignedInteger(rescale.dtype_out)
         THEN [rescale EXCEPT !.pc = "raised", !.raised = "ValueError",
                              !.log = Append(@, "issubdtype")]
         ELSE [rescale EXCEPT !.pc = "L35", !.log = Append(@, "issubdtype")]
    /\ UNCHANGED <<correct, remove, heap>>

\* lines 35-38
LocalStretch ==
    /\ rescale.pc = "L35"
    /\ rescale' =
         IF rescale.imin = << >> /\ rescale.scale = << >>
         THEN [rescale EXCEPT !.pc = "L41", !.local = TRUE,
                              !.imin = <<ArrMin(rescale.pattern)>>,
                              !.scale = <<LocalScale(rescale.pattern, rescale.dtype_out)>>,
                              !.log = @ \o <<"min", "max">>]
         ELSE [rescale EXCEPT !.pc = "L41"]
    /\ UNCHANGED <<correct, remove, heap>>

\* line 41
SubtractImin ==
    /\ rescale.pc = "L41"
    /\ rescale' =
         IF rescale.imin = << >>
         THEN [rescale EXCEPT !.pc = "raised", !.raised = "TypeError"]
         ELSE [rescale EXCEPT !.pc = "L44",
                              !.pattern = SetLowest(@, rescale.imin[1]),
                              !.log = Append(@, "subtract")]
    /\ UNCHANGED <<correct, remove, heap>>

\* line 44
ScaleAndReturn ==
    /\ rescale.pc = "L44"
    /\ rescale' =
         IF rescale.scale = << >>
         THEN [rescale EXCEPT !.pc = "raised", !.raised = "TypeError"]
         ELSE [rescale EXCEPT !.pc = "done",
                              !.ret = ScaleIntensities(rescale.pattern, rescale.scale[1],
                                                       rescale.dtype_out, rescale.build),
                              !.log = Append(@, "multiply")]
    /\ UNCHANGED <<correct, remove, heap>>

(***************************************************************************)
(* scipy.ndimage.gaussian_filter(pattern, sigma, truncate=2.0), the        *)
(* external blur primitive: one correlation per axis (axis 0, then axis 1) *)
(* with the normalised kernel exp(-x^2 / (2 sigma^2)) of radius            *)
(* int(truncate * sigma + 0.5), the array extended by reflection           *)
(* (d c b a | a b c d | d c b a), each pass stored in the dtype of the     *)
(* input.  sigma is counted in tenths and the kernel weights in            *)
(* thousandths.                                                            *)
(***************************************************************************)
Sigmas == {0, 5, 10}

KernelRadius(sigma) == (2 * sigma + 5) \div 10

KernelWeights(sigma) ==
    CASE sigma = 5 -> <<107, 786, 107>>
      [] sigma = 10 -> <<54, 244, 404, 244, 54>>
      [] OTHER -> <<1000>>

\* mode='reflect': the index of the element that stands at position t of 1 .. n
Reflect(t, n) == IF t < 1 THEN 1 - t ELSE IF t > n THEN 2 * n + 1 - t ELSE t

RECURSIVE WeightedSum(_, _, _, _)
WeightedSum(line, w, t, k) ==
    IF k > Len(w) THEN 0
    ELSE w[k] * line[Reflect(t + k - 1 - (Len(w) - 1) \div 2, Len(line))]
         + WeightedSum(line, w, t, k + 1)

Correlate1d(line, w) == [t \in 1 .. Len(line) |-> WeightedSum(line, w, t, 1) \div 1000]

Transpose(data) ==
    IF Len(data) = 0 THEN << >>
    ELSE [j \in 1 .. Len(data[1]) |-> [i \in 1 .. Len(data) |-> data[i][j]]]

GaussianFilter(a, sigma) ==
    IF KernelRadius(sigma) = 0 THEN a
    ELSE LET w == KernelWeights(sigma)
             cols == Transpose(a.data)
             pass0 == Transpose([j \in 1 .. Len(cols) |-> Correlate1d(cols[j], w)])
         IN  [dtype |-> a.dtype,
              data |-> [i \in 1 .. Len(pass0) |-> Correlate1d(pass0[i], w)]]

(***************************************************************************)
(* correct_background(pattern, static, dynamic, bg, sigma, imin, scale)    *)
(***************************************************************************)
BgBases == {0, 10}

Backgrounds == {Pattern("uint8", a, 0, c) : a \in Slopes, c \in BgBases}

CorrectIdle ==
    [pc |-> "idle", pattern |-> NoArray, input |-> NoArray, static |-> FALSE,
     dynamic |-> FALSE, bg |-> NoArray, sigma |-> 0, imin |-> 0,
     scale |-> [num |-> 1, den |-> 1], build |-> "x86_64", blurred |-> NoArray,
     casted |-> NoArray, staticOut |-> NoArray, blurIn |-> NoArray,
     difference |-> NoArray, ret |-> NoArray, raised |-> "", log |-> << >>]

CorrectCall ==
    /\ NoCall
    /\ \E p \in Patterns({"uint8"}), static \in BOOLEAN, dynamic \in BOOLEAN,
          bg \in Backgrounds, sigma \in Sigmas, imin \in Imins, scale \in Scales,
          build \in Builds :
          correct' = [CorrectIdle EXCEPT !.pc = "L75", !.pattern = p, !.input = p,
                                         !.static = static, !.dynamic = dynamic,
                                         !.bg = bg, !.sigma = sigma, !.imin = imin,
                                         !.scale = scale, !.build = build]
    /\ UNCHANGED <<rescale, remove, heap>>

\* lines 75-79: pattern and bg cast to np.int8
StaticCast ==
    /\ correct.pc = "L75"
    /\ correct.static
    /\ correct' = [correct EXCEPT !.pc = "L82",
                                  !.pattern = AsType(@, "int8"),
                                  !.bg = AsType(@, "int8"),
                                  !.casted = AsType(correct.pattern, "int8"),
                                  !.log = Append(@, "astype_int8")]
    /\ UNCHANGED <<rescale, remove, heap>>

\* line 75, static false
SkipStatic ==
    /\ correct.pc = "L75"
    /\ ~correct.static
    /\ correct' = [correct EXCEPT !.pc = "L87"]
    /\ UNCHANGED <<rescale, remove, heap>>

\* line 82
StaticSubtract ==
    /\ correct.pc = "L82"
    /\ correct' = [correct EXCEPT !.pc = "L85",
                                  !.pattern = SubArrays(@, correct.bg),
                                  !.log = Append(@, "subtract_bg")]
    /\ UNCHANGED <<rescale, remove, heap>>

\* line 85: rescale_pattern_intensity(pattern, imin=imin, scale=scale)
StaticRescale ==
    /\ correct.pc = "L85"
    /\ LET r == RescalePatternIntensity(correct.pattern, <<correct.imin>>,
                                        <<correct.scale>>, "uint8", correct.build)
       IN  correct' =
             IF r.raised # ""
             THEN [correct EXCEPT !.pc = "raised", !.raised = r.raised]
             ELSE [correct EXCEPT !.pc = "L87", !.pattern = r.ret,
                                  !.staticOut = r.ret,
                                  !.log = Append(@, "rescale_global")]
    /\ UNCHANGED <<rescale, remove, heap>>

\* faulty variant: the blur of the pattern that was passed in
BlurOfInput ==
    /\ correct.pc = "L87"
    /\ correct.dynamic
    /\ correct' = [correct EXCEPT !.pc = "L92",
                                  !.blurIn = correct.input,
                                  !.blurred = GaussianFilter(correct.input, correct.sigma),
                                  !.log = Append(@, "gaussian_filter")]
    /\ UNCHANGED <<rescale, remove, heap>>

\* lines 87-89: blurred = gaussian_filter(pattern, sigma, truncate=2.0)
Blur ==
    /\ correct.pc = "L87"
    /\ correct.dynamic
    /\ correct' = [correct EXCEPT !.pc = "L92",
                                  !.blurIn = correct.pattern,
                                  !.blurred = GaussianFilter(correct.pattern, correct.sigma),
                                  !.log = Append(@, "gaussian_filter")]
    /\ UNCHANGED <<rescale, remove, heap>>

\* line 87, dynamic false
SkipDynamic ==
    /\ correct.pc = "L87"
    /\ ~correct.dynamic
    /\ correct' = [correct EXCEPT !.pc = "L102"]
    /\ UNCHANGED <<rescale, remove, heap>>

\* lines 92-94: pattern and blurred cast to np.int16
DynamicCast ==
    /\ correct.pc = "L92"
    /\ correct' = [correct EXCEPT !.pc = "L97",
                                  !.pattern = AsType(@, "int16"),
                                  !.blurred = AsType(@, "int16"),
                                  !.log = Append(@, "astype_int16")]
    /\ UNCHANGED <<rescale, remove, heap>>

\* line 97
DynamicSubtract ==
    /\ correct.pc = "L97"
    /\ correct' = [correct EXCEPT !.pc = "L100",
                                  !.pattern = SubArrays(@, correct.blurred),
                                  !.difference = SubArrays(correct.pattern, correct.blurred),
                                  !.log = Append(@, "subtract_blurred")]
    /\ UNCHANGED <<rescale, remove, heap>>

\* line 100: rescale_pattern_intensity(pattern)
DynamicRescale ==
    /\ correct.pc = "L100"
    /\ LET r == RescalePatternIntensity(correct.pattern, << >>, << >>, "uint8",
                                        correct.build)
       IN  correct' =
             IF r.raised # ""
             THEN [correct EXCEPT !.pc = "raised", !.raised = r.raised]
             ELSE [correct EXCEPT !.pc = "L102", !.pattern = r.ret,
                                  !.log = Append(@, "rescale_local")]
    /\ UNCHANGED <<rescale, remove, heap>>

\* faulty variant: a final rescale whatever the flags
ReturnRescaled ==
    /\ correct.pc = "L102"
    /\ correct' = [correct EXCEPT !.pc = "done",
                                  !.ret = RescalePatternIntensity(correct.pattern, << >>, << >>,
                                                                  "uint8", correct.build).ret]
    /\ UNCHANGED <<rescale, remove, heap>>

\* line 102
ReturnPattern ==
    /\ correct.pc = "L102"
    /\ correct' = [correct EXCEPT !.pc = "done", !.ret = correct.pattern]
    /\ UNCHANGED <<rescale, remove, heap>>

(***************************************************************************)
(* remove_dead(pattern, deadpixels, deadvalue="average", d=1)              *)
(*                                                                         *)
(* Arrays of this function live in heap, a sequence of arrays; pattern,    *)
(* new_pattern and the returned value are references (indices) into it,    *)
(* 0 for no array.                                                         *)
(***************************************************************************)
NaN == 999999

DeadValues == {"average", "nan", "median"}
Ds == {1, 2}

RECURSIVE SeqsUpTo(_, _)
SeqsUpTo(S, n) ==
    IF n = 0 THEN {<< >>}
    ELSE LET shorter == SeqsUpTo(S, n - 1)
         IN  shorter \cup {Append(s, x) : s \in {t \in shorter : Len(t) = n - 1}, x \in S}

\* faulty variant: new_pattern = pattern, no copy
NpCopyAlias(h, ref) == [heap |-> h, ref |-> ref]

\* np.copy(a): a new array with the contents of heap[ref]
NpCopy(h, ref) == [heap |-> Append(h, h[ref]), ref |-> Len(h) + 1]

\* the indices (0-based, in order) that the slice start:stop selects of n elements
SliceIndices(start, stop, n) ==
    LET lo == IF start < 0 THEN (IF start + n < 0 THEN 0 ELSE start + n)
              ELSE (IF start > n THEN n ELSE start)
        hi == IF stop < 0 THEN (IF stop + n < 0 THEN 0 ELSE stop + n)
              ELSE (IF stop > n THEN n ELSE stop)
    IN  [t \in 1 .. (IF hi > lo THEN hi - lo ELSE 0) |-> lo + t - 1]

\* line 134: pattern[i - d:i + d + 1, j - d:j + d + 1].flatten(), as coordinates
WindowCoords(a, i, j, d) ==
    LET rs == SliceIndices(i - d, i + d + 1, NRows(a))
        cs == SliceIndices(j - d, j + d + 1, NCols(a))
    IN  [t \in 1 .. Len(rs) * Len(cs) |->
           <<rs[((t - 1) \div Len(cs)) + 1], cs[((t - 1) % Len(cs)) + 1]>>]

\* faulty variant: the neighbours are read from the copy under repair
WindowSourceCopy(pattern, new_pattern) == new_pattern

\* the array of heap that line 134 reads
WindowSource(pattern, new_pattern) == pattern

\* np.delete(neighbours, 4) with the index in range
DeleteAt4(s) == [t \in 1 .. Len(s) - 1 |-> IF t < 5 THEN s[t] ELSE s[t + 1]]

RECURSIVE SumAt(_, _, _)
SumAt(a, cs, k) ==
    IF k > Len(cs) THEN 0 ELSE At(a, cs[k][1], cs[k][2]) + SumAt(a, cs, k + 1)

\* int(np.mean(neighbours)) over a non-empty list of coordinates
IntMean(a, cs) == TruncDiv(SumAt(a, cs, 1), Len(cs))

SetItem(a, i, j, v) == [a EXCEPT !.data[i + 1][j + 1] = v]

\* faulty variant: 'nan' and, by default, 'average'
BranchDefaultAverage(deadvalue) == IF deadvalue = "nan" THEN "nan" ELSE "average"

\* lines 132, 137, 140: the branch taken for deadvalue
Branch(deadvalue) ==
    CASE deadvalue = "average" -> "average"
      [] deadvalue = "nan" -> "nan"
      [] OTHER -> "raise"

RemoveIdle ==
    [pc |-> "idle", pattern |-> 0, new_pattern |-> 0, deadpixels |-> << >>,
     deadvalue |-> "average", d |-> 1, k |-> 0, ret |-> 0, raised |-> "",
     input |-> NoArray, output |-> NoArray, excluded |-> << >>,
     wroteInput |-> FALSE, wroteOutput |-> FALSE]

RemoveCall ==
    /\ NoCall
    /\ \E p \in Patterns({"uint8", "float64"}),
          deadpixels \in SeqsUpTo((0 .. Rows - 1) \X (0 .. Cols - 1), MaxDead),
          deadvalue \in DeadValues, d \in Ds :
          /\ remove' = [RemoveIdle EXCEPT !.pc = "L131", !.pattern = 1, !.input = p,
                                          !.deadpixels = deadpixels,
                                          !.deadvalue = deadvalue, !.d = d]
          /\ heap' = <<p>>
    /\ UNCHANGED <<rescale, correct>>

\* line 131
CopyPattern ==
    /\ remove.pc = "L131"
    /\ LET c == NpCopy(heap, remove.pattern)
       IN  /\ heap' = c.heap
           /\ remove' = [remove EXCEPT !.pc = "L132", !.new_pattern = c.ref]
    /\ UNCHANGED <<rescale, correct>>

\* lines 133-136, one iteration; np.delete with index 4 out of range is
\* ignored with a DeprecationWarning by numpy < 1.19 and raises IndexError since
AverageStep ==
    /\ remove.pc = "L132"
    /\ Branch(remove.deadvalue) = "average"
    /\ remove.k < Len(remove.deadpixels)
    /\ LET i == remove.deadpixels[remove.k + 1][1]
           j == remove.deadpixels[remove.k + 1][2]
           src == heap[WindowSource(remove.pattern, remove.new_pattern)]
           window == WindowCoords(src, i, j, remove.d)
           write(cs) ==
               IF Len(cs) = 0
               THEN /\ remove' = [remove EXCEPT !.pc = "raised", !.raised = "ValueError"]
                    /\ heap' = heap
               ELSE /\ remove' = [remove EXCEPT !.k = @ + 1,
                                                !.excluded =
                                                    Append(@, IF Len(window) >= 5
                                                              THEN <<window[5]>>
                                                              ELSE << >>)]
                    /\ heap' = [heap EXCEPT ![remove.new_pattern] =
                                               SetItem(@, i, j, IntMean(src, cs))]
       IN  IF Len(window) >= 5
           THEN write(DeleteAt4(window))
           ELSE \/ write(window)
                \/ /\ remove' = [remove EXCEPT !.pc = "raised", !.raised = "IndexError"]
                   /\ heap' = heap
    /\ UNCHANGED <<rescale, correct>>

\* lines 138-139, one iteration: an integer array cannot hold np.nan
NanStep ==
    /\ remove.pc = "L132"
    /\ Branch(remove.deadvalue) = "nan"
    /\ remove.k < Len(remove.deadpixels)
    /\ LET i == remove.deadpixels[remove.k + 1][1]
           j == remove.deadpixels[remove.k + 1][2]
       IN  IF IsInteger(heap[remove.new_pattern].dtype)
           THEN /\ remove' = [remove EXCEPT !.pc = "raised", !.raised = "ValueError"]
                /\ heap' = heap
           ELSE /\ remove' = [remove EXCEPT !.k = @ + 1]
                /\ heap' = [heap EXCEPT ![remove.new_pattern] = SetItem(@, i, j, NaN)]
    /\ UNCHANGED <<rescale, correct>>

\* lines 140-143
RaiseNotImplemented ==
    /\ remove.pc = "L132"
    /\ Branch(remove.deadvalue) = "raise"
    /\ remove' = [remove EXCEPT !.pc = "raised", !.raised = "NotImplementedError"]
    /\ UNCHANGED <<rescale, correct, heap>>

\* line 144
ReturnNewPattern ==
    /\ remove.pc = "L132"
    /\ Branch(remove.deadvalue) # "raise"
    /\ remove.k = Len(remove.deadpixels)
    /\ remove' = [remove EXCEPT !.pc = "done", !.ret = remove.new_pattern,
                                !.output = heap[remove.new_pattern]]
    /\ UNCHANGED <<rescale, correct, heap>>

\* a += 1, in place
AddOne(a) ==
    [dtype |-> a.dtype,
     data |-> [i \in 1 .. NRows(a) |->
                 [j \in 1 .. NCols(a) |->
                    IF a.data[i][j] = NaN THEN NaN ELSE WrapTo(a.data[i][j] + 1, a.dtype)]]]

\* the caller, after the call: pattern += 1 on the array it passed in
CallerWritesInput ==
    /\ remove.pc = "done"
    /\ ~remove.wroteInput
    /\ heap' = [heap EXCEPT ![remove.pattern] = AddOne(@)]
    /\ remove' = [remove EXCEPT !.wroteInput = TRUE]
    /\ UNCHANGED <<rescale, correct>>

\* the caller, after the call: result += 1 on the array it was returned
CallerWritesOutput ==
    /\ remove.pc = "done"
    /\ ~remove.wroteOutput
    /\ heap' = [heap EXCEPT ![remove.ret] = AddOne(@)]
    /\ remove' = [remove EXCEPT !.wroteOutput = TRUE]
    /\ UNCHANGED <<rescale, correct>>

Init ==
    /\ rescale = RescaleIdle
    /\ correct = CorrectIdle
    /\ remove = RemoveIdle
    /\ heap = << >>

NextRescale ==
    \/ RescaleCall
    \/ CheckDtype
    \/ LocalStretch
    \/ SubtractImin
    \/ ScaleAndReturn

SpecRescale == Init /\ [][NextRescale]_vars

NextCorrect ==
    \/ CorrectCall
    \/ StaticCast
    \/ SkipStatic
    \/ StaticSubtract
    \/ StaticRescale
    \/ Blur
    \/ SkipDynamic
    \/ DynamicCast
    \/ DynamicSubtract
    \/ DynamicRescale
    \/ ReturnPattern

SpecCorrect == Init /\ [][NextCorrect]_vars

NextRemove ==
    \/ RemoveCall
    \/ CopyPattern
    \/ AverageStep
    \/ NanStep
    \/ RaiseNotImplemented
    \/ ReturnNewPattern
    \/ CallerWritesInput
    \/ CallerWritesOutput

SpecRemove == Init /\ [][NextRemove]_vars

\* the three functions together: one call, of any of them
Next == NextRescale \/ NextCorrect \/ NextRemove

Spec == Init /\ [][Next]_vars

(***************************************************************************)
(* The properties.                                                         *)
(***************************************************************************)
UnsignedTypes == {"uint8", "uint16"}

MaxOf(dt) == IF dt = "uint8" THEN 255 ELSE 65535

DeadSet == {remove.deadpixels[k] : k \in 1 .. Len(remove.deadpixels)}

Interior(a, i, j) == 1 <= i /\ i <= NRows(a) - 2 /\ 1 <= j /\ j <= NCols(a) - 2

OnEdge(a, i, j) == i = 0 \/ j = 0 \/ i = NRows(a) - 1 \/ j = NCols(a) - 1

\* the pixels next to (i, j) that exist, (i, j) itself left out
NeighboursInBounds(a, i, j) ==
    {c \in Coords(a) : Abs(c[1] - i) <= 1 /\ Abs(c[2] - j) <= 1 /\ c # <<i, j>>}

RECURSIVE SumOver(_, _)
SumOver(a, S) ==
    IF S = {} THEN 0
    ELSE LET c == CHOOSE x \in S : TRUE
         IN  At(a, c[1], c[2]) + SumOver(a, S \ {c})

EightMean(a, i, j) ==
    (At(a, i - 1, j - 1) + At(a, i - 1, j) + At(a, i - 1, j + 1)
     + At(a, i, j - 1) + At(a, i, j + 1)
     + At(a, i + 1, j - 1) + At(a, i + 1, j) + At(a, i + 1, j + 1)) \div 8

\* C1: remove_dead, 'average', d = 1: every interior dead pixel of the result
\* holds the truncated mean of its eight neighbours in the input pattern,
\* whatever the order of deadpixels, repeated or neighbouring dead pixels
C1_AverageOfOriginalNeighbours ==
    (remove.pc = "done" /\ remove.deadvalue = "average" /\ remove.d = 1) =>
        \A c \in DeadSet :
            Interior(remove.input, c[1], c[2]) =>
                At(remove.output, c[1], c[2]) = EightMean(remove.input, c[1], c[2])

\* an interior dead pixel repaired after a neighbouring dead pixel whose value
\* the repair changed, with a mean that is not a whole number
C1_Witness ==
    /\ remove.pc = "done" /\ remove.deadvalue = "average" /\ remove.d = 1
    /\ Len(remove.deadpixels) = 2
    /\ Interior(remove.input, remove.deadpixels[2][1], remove.deadpixels[2][2])
    /\ remove.deadpixels[1] \in
         NeighboursInBounds(remove.input, remove.deadpixels[2][1], remove.deadpixels[2][2])
    /\ At(remove.output, remove.deadpixels[1][1], remove.deadpixels[1][2])
         # At(remove.input, remove.deadpixels[1][1], remove.deadpixels[1][2])
    /\ SumOver(remove.input, NeighboursInBounds(remove.input, remove.deadpixels[2][1],
                                                remove.deadpixels[2][2])) % 8 # 0

C3_StaticZeroBackground ==
    (/\ correct.pc = "done" /\ correct.static /\ ~correct.dynamic
     /\ Values(correct.bg) = {0} /\ correct.imin = 0
     /\ correct.scale = [num |-> 1, den |-> 1]) =>
        /\ correct.casted.data = correct.input.data
        /\ correct.ret = RescalePatternIntensity(correct.input, <<0>>, <<[num |-> 1, den |-> 1]>>,
                                                 "uint8", correct.build).ret

\* C4: rescale_pattern_intensity raises ValueError exactly when dtype_out is
\* not an unsigned integer type, and then nothing was computed on the pattern
C4_DtypeCheckedFirst ==
    /\ (rescale.pc \notin {"idle", "L32"} /\ rescale.dtype_out \notin UnsignedTypes) =>
           /\ rescale.pc = "raised" /\ rescale.raised = "ValueError"
           /\ rescale.log = <<"issubdtype">>
           /\ rescale.pattern = rescale.input
           /\ rescale.ret = NoArray
    /\ rescale.dtype_out \in UnsignedTypes => rescale.raised # "ValueError"

\* ValueError for a signed dtype_out, in automatic mode
C4_Witness ==
    /\ rescale.pc = "raised" /\ rescale.raised = "ValueError"
    /\ rescale.dtype_out = "int8"
    /\ rescale.imin = << >> /\ rescale.scale = << >>

\* C5: remove_dead, 'nan', on an unsigned integer pattern: the call completes
\* and the result holds the sentinel at the dead pixels, the input elsewhere
C5_NanOnUnsignedPattern ==
    (/\ remove.pc \in {"done", "raised"} /\ remove.deadvalue = "nan"
     /\ remove.input.dtype \in UnsignedTypes) =>
        /\ remove.pc = "done"
        /\ \A c \in Coords(remove.input) :
               At(remove.output, c[1], c[2]) =
                   IF c \in DeadSet THEN NaN ELSE At(remove.input, c[1], c[2])

\* C6: remove_dead never writes to its input, its result is another array
\* that differs from the input at dead pixels only, and a later write to one
\* of the two arrays leaves the other as it was
C6_FreshCopy ==
    /\ (remove.pc # "idle" /\ ~remove.wroteInput) => heap[remove.pattern] = remove.input
    /\ remove.pc = "done" =>
           /\ remove.ret # remove.pattern
           /\ \A c \in Coords(remove.input) \ DeadSet :
                  At(remove.output, c[1], c[2]) = At(remove.input, c[1], c[2])
           /\ ~remove.wroteOutput => heap[remove.ret] = remove.output

\* the caller wrote to its input after a call that repaired a pixel
C6_Witness ==
    /\ remove.pc = "done" /\ remove.wroteInput /\ ~remove.wroteOutput
    /\ remove.output # remove.input
    /\ heap[remove.pattern] # remove.input

\* C7: remove_dead with a deadvalue other than 'average' and 'nan' raises
\* NotImplementedError, returns no array and leaves the input as it was
C7_UnsupportedDeadvalue ==
    (remove.pc \notin {"idle", "L131", "L132"} /\ remove.deadvalue \notin {"average", "nan"}) =>
        /\ remove.pc = "raised" /\ remove.raised = "NotImplementedError"
        /\ remove.ret = 0
        /\ heap[remove.pattern] = remove.input

\* NotImplementedError with no dead pixel at all
C7_Witness ==
    /\ remove.pc = "raised" /\ remove.raised = "NotImplementedError"
    /\ remove.deadvalue = "median" /\ remove.deadpixels = << >>

FullLog ==
    <<"astype_int8", "subtract_bg", "rescale_global", "gaussian_filter", "astype_int16",
      "subtract_blurred", "rescale_local">>

\* C8: correct_background, static and dynamic: the static path (cast,
\* subtraction, global rescale) is complete before the dynamic path starts,
\* the blur is taken of the static path's output, and the last rescale is
\* local (stretched to 0 .. 255) whatever imin and scale are
C8_StaticBeforeDynamic ==
    (correct.static /\ correct.dynamic) =>
        /\ correct.log = SubSeq(FullLog, 1, Len(correct.log))
        /\ Len(correct.log) >= 4 =>
               /\ correct.blurIn = correct.staticOut
               /\ correct.staticOut.dtype = "uint8"
        /\ correct.pc = "done" =>
               /\ correct.log = FullLog
               /\ ArrMin(correct.ret) = 0
               /\ Cardinality(Values(correct.difference)) >= 2 =>
                      ArrMax(correct.ret) \in {254, 255}

\* both corrections done, the static one having changed the pattern, with
\* imin and scale that a global rescale would show in the result
C8_Witness ==
    /\ correct.pc = "done" /\ correct.static /\ correct.dynamic
    /\ correct.staticOut.data # correct.input.data
    /\ correct.imin = 10 /\ correct.scale = [num |-> 1, den |-> 2]
    /\ Cardinality(Values(correct.difference)) >= 2

\* C9: correct_background with neither flag returns the pattern it was given
C9_NeitherFlag ==
    (correct.pc = "done" /\ ~correct.static /\ ~correct.dynamic) =>
        /\ correct.ret = correct.input
        /\ correct.log = << >>

\* the pass-through of a pattern that a rescale would change
C9_Witness ==
    /\ correct.pc = "done" /\ ~correct.static /\ ~correct.dynamic
    /\ correct.imin = 10 /\ correct.scale = [num |-> 2, den |-> 1]
    /\ RescalePatternIntensity(correct.input, << >>, << >>, "uint8", correct.build).ret
         # correct.input

\* C10: remove_dead, 'average', d = 1, with dead pixels on an edge or corner:
\* the call does not fail, the element left out of each mean is the dead
\* pixel, and the value written is the mean of the neighbours inside the array
C10_EdgeWindowClipped ==
    (/\ remove.pc \in {"done", "raised"} /\ remove.deadvalue = "average" /\ remove.d = 1
     /\ \E c \in DeadSet : OnEdge(remove.input, c[1], c[2])) =>
        /\ remove.pc = "done"
        /\ \A k \in 1 .. Len(remove.deadpixels) :
               LET c == remove.deadpixels[k]
                   nb == NeighboursInBounds(remove.input, c[1], c[2])
               IN  OnEdge(remove.input, c[1], c[2]) =>
                       /\ remove.excluded[k] = <<c>>
                       /\ At(remove.output, c[1], c[2])
                            = SumOver(remove.input, nb) \div Cardinality(nb)

====
